---- MODULE Spec2Model ----
(***************************************************************************)
(* Model of pyannotate's annotation fixer (fixes/fix_annotate.py).         *)
(*                                                                         *)
(* A string is a sequence of atoms (short TLA+ strings); concatenation is  *)
(* \o and the length of a string is the sum of the lengths of its atoms.   *)
(* A parse-tree node is a record [leaf, type, value, prefix, children],    *)
(* as lib2to3's Leaf and Node.  The driver hands the fixer one matched     *)
(* funcdef node after the other (Match), transform edits it (Transform),   *)
(* and the driver moves on (Advance).                                      *)
(*                                                                         *)
(* annotations/main.py is modelled next to it: signature records are       *)
(* generated from sample records (Generate), reverted to sample records    *)
(* (Revert) and generated again (GenerateAgain).                           *)
(***************************************************************************)
EXTENDS Integers, Sequences, FiniteSets, TLC

VARIABLES
    type_hints,    \* self.options['type_hints']: TRUE inline style, FALSE comment style
    maxfixes,      \* FixAnnotate._maxfixes: None or <<the integer of MAXFIXES>>
    counter,       \* FixAnnotate.counter: None or <<the remaining edit budget>>
    tree_imports,  \* the file's import of typing.Any: "none", "existing", "added"
    pc,            \* "scan", "matched", "done", "rerun", "crashed" ("idle" in main.py's run)
    node,          \* the funcdef node being processed (None when scanning)
    orig,          \* the same node as it was matched, before transform
    annot,         \* transform's local annot: what make_annotation returned
    outcome,       \* the return path transform took for node
    logged,        \* the log_message calls transform made for node
    nseen,         \* number of funcdef nodes matched so far in the file
    nedited,       \* number of them whose text transform changed
    wrote_any,     \* some text written into the file so far contains Any
    counter2,      \* FixAnnotate.counter of a second run over the output
    node2,         \* the re-parsed output node after the second run's transform
    import2,       \* the second run called touch_import
    source,        \* annotations/main.py: the sample records read from source_path
    data,          \* the signature records generate_annotations_json_string returned
    reverted,      \* the sample records revert_annotations(data) returned
    again,         \* the signature records generated from the reverted samples
    mpc            \* "idle", "loaded", "generated", "reverted", "regenerated"

main_vars == <<source, data, reverted, again, mpc>>

vars == <<type_hints, maxfixes, counter, tree_imports, pc, node, orig, annot,
          outcome, logged, nseen, nedited, wrote_any, counter2, node2, import2,
          main_vars>>

\* ---------------------------------------------------------------- bounds

MaxParams == 2     \* parameters of an enumerated parameter list
MaxLong == 7       \* parameters of the longest uniform parameter list
MaxDepth == 1      \* nesting depth of compound statements in a body
MaxFuncs == 2      \* funcdef nodes in one file
MaxBudget == 1     \* largest MAXFIXES
MaxArgs == 2       \* argument types of one signature
MaxTypeDepth == 1  \* nesting depth of a type expression
MaxRecords == 2    \* records in one JSON file

\* ---------------------------------------------------------------- strings

\* Python's None, and an integer k, as values of the counter: <<>> and <<k>>
None == <<>>

WS == {" ", "  ", "\n", "    ", "        "}

CommentAtoms == {"# type:", "# note"}

RECURSIVE StrLen(_)
StrLen(s) == IF s = <<>> THEN 0 ELSE Len(Head(s)) + StrLen(Tail(s))

RECURSIVE lstrip(_)
lstrip(s) == IF s # <<>> /\ Head(s) \in WS THEN lstrip(Tail(s)) ELSE s

RECURSIVE rstrip(_)
rstrip(s) ==
    IF s # <<>> /\ s[Len(s)] \in WS THEN rstrip(SubSeq(s, 1, Len(s) - 1)) ELSE s

strip(s) == lstrip(rstrip(s))

RECURSIVE lstrip_stars(_)
lstrip_stars(s) ==
    IF s # <<>> /\ Head(s) \in {"*", "**"} THEN lstrip_stars(Tail(s)) ELSE s

startswith(s, atom) == s # <<>> /\ Head(s) = atom

RECURSIVE join(_, _)
join(sep, strs) ==
    IF strs = <<>> THEN <<>>
    ELSE IF Len(strs) = 1 THEN Head(strs)
    ELSE Head(strs) \o <<sep>> \o join(sep, Tail(strs))

Digits == {"0", "1", "2", "3", "4", "5", "6", "7", "8", "9"}

\* re.match(r'\d+[lL]?$', value)
int_re_match(v) ==
    \E k \in 1..Len(v) :
        /\ \A i \in 1..k : v[i] \in Digits
        /\ \/ Len(v) = k
           \/ Len(v) = k + 1 /\ v[k + 1] \in {"l", "L"}

\* ---------------------------------------------------------------- trees

Leaf(t, v) == [leaf |-> TRUE, type |-> t, value |-> v, prefix |-> <<>>, children |-> <<>>]

LeafP(t, v, p) == [leaf |-> TRUE, type |-> t, value |-> v, prefix |-> p, children |-> <<>>]

Node(t, ch) == [leaf |-> FALSE, type |-> t, value |-> <<>>, prefix |-> <<>>, children |-> ch]

NoNode == Node("absent", <<>>)

\* Node.prefix is the prefix of the node's first leaf
RECURSIVE prefix_of(_)
prefix_of(n) ==
    IF n.leaf THEN n.prefix
    ELSE IF n.children = <<>> THEN <<>>
    ELSE prefix_of(n.children[1])

\* str(node): the source text of a subtree
RECURSIVE text_of(_)
RECURSIVE text_of_seq(_)
text_of(n) == IF n.leaf THEN n.prefix \o n.value ELSE text_of_seq(n.children)
text_of_seq(ns) == IF ns = <<>> THEN <<>> ELSE text_of(Head(ns)) \o text_of_seq(Tail(ns))

\* ---------------------------------------------------------------- source files
\* What lib2to3's parser builds for the function definitions of a file.

Comma == Leaf("COMMA", <<",">>)

Newline == Leaf("NEWLINE", <<"\n">>)

\* the first leaf of a subtree carries the whitespace before it
RECURSIVE with_prefix(_, _)
with_prefix(n, p) ==
    IF n.leaf THEN [n EXCEPT !.prefix = p]
    ELSE [n EXCEPT !.children[1] = with_prefix(@, p)]

DefaultKinds ==
    {"int", "long", "hex", "float", "complex", "str", "unicode", "bool", "None", "expr"}

\* the node of a default value: a literal is one leaf, an expression a Node
default_node(kind) ==
    CASE kind = "int" -> Leaf("NUMBER", <<"0">>)
      [] kind = "long" -> Leaf("NUMBER", <<"1", "0", "L">>)
      [] kind = "hex" -> Leaf("NUMBER", <<"0", "x", "1", "0">>)
      [] kind = "float" -> Leaf("NUMBER", <<"0", ".", "0">>)
      [] kind = "complex" -> Leaf("NUMBER", <<"1", "j">>)
      [] kind = "str" -> Leaf("STRING", <<"'", "'">>)
      [] kind = "unicode" -> Leaf("STRING", <<"u", "'", "'">>)
      [] kind = "bool" -> Leaf("NAME", <<"False">>)
      [] kind = "None" -> Leaf("NAME", <<"None">>)
      [] OTHER -> Node("factor", <<Leaf("MINUS", <<"-">>), Leaf("NUMBER", <<"1">>)>>)

\* one parameter of the source: (('*'|'**')? NAME [':' type] ['=' expr])
Param(stars, name, ann, default) ==
    [stars |-> stars, name |-> name, ann |-> ann, default |-> default]

Plain(name) == Param("", name, "", "none")

param_tokens(p) ==
    (IF p.stars = "" THEN <<>>
     ELSE <<Leaf(IF p.stars = "*" THEN "STAR" ELSE "DOUBLESTAR", <<p.stars>>)>>)
    \o <<IF p.ann = "" THEN Leaf("NAME", <<p.name>>)
         ELSE Node("tname", <<Leaf("NAME", <<p.name>>), Leaf("COLON", <<":">>),
                              LeafP("NAME", <<p.ann>>, <<" ">>)>>)>>
    \o (IF p.default = "none" THEN <<>>
        ELSE <<Leaf("EQUAL", <<"=">>), default_node(p.default)>>)

RECURSIVE params_tokens(_, _)
params_tokens(ps, first) ==
    IF ps = <<>> THEN <<>>
    ELSE LET toks == param_tokens(Head(ps))
             own == IF first THEN toks
                    ELSE <<Comma, with_prefix(toks[1], <<" ">>)>> \o Tail(toks)
         IN  own \o params_tokens(Tail(ps), FALSE)

\* results.get('args'): absent, a single Leaf or tname, or a typedargslist
args_of(ps) ==
    LET toks == params_tokens(ps, TRUE)
    IN  IF toks = <<>> THEN NoNode
        ELSE IF Len(toks) = 1 THEN toks[1]
        ELSE Node("typedargslist", toks)

\* -- statements of a body

Suite(indent_prefix, stmts) ==
    Node("suite", <<Newline, LeafP("INDENT", <<"    ">>, indent_prefix)>>
                  \o stmts \o <<Leaf("DEDENT", <<>>)>>)

pass_stmt == Node("simple_stmt", <<Leaf("NAME", <<"pass">>), Newline>>)

return_bare == Node("simple_stmt", <<Leaf("NAME", <<"return">>), Newline>>)

return_value ==
    Node("simple_stmt",
         <<Node("return_stmt", <<Leaf("NAME", <<"return">>),
                                 LeafP("NUMBER", <<"42">>, <<" ">>)>>), Newline>>)

BaseStmts == {pass_stmt, return_bare, return_value}

if_stmt(s) ==
    Node("if_stmt", <<Leaf("NAME", <<"if">>), LeafP("NAME", <<"x">>, <<" ">>),
                      Leaf("COLON", <<":">>), Suite(<<>>, <<s>>)>>)

inner_funcdef(s) ==
    Node("funcdef", <<Leaf("NAME", <<"def">>), LeafP("NAME", <<"inner">>, <<" ">>),
                      Node("parameters", <<Leaf("LPAR", <<"(">>), Leaf("RPAR", <<")">>)>>),
                      Leaf("COLON", <<":">>), Suite(<<>>, <<s>>)>>)

inner_classdef(s) ==
    Node("classdef", <<Leaf("NAME", <<"class">>), LeafP("NAME", <<"Inner">>, <<" ">>),
                       Leaf("COLON", <<":">>), Suite(<<>>, <<s>>)>>)

decorator(children) == Node("decorator", <<Leaf("AT", <<"@">>)>> \o children \o <<Newline>>)

simple_decorator(name) == decorator(<<Leaf("NAME", <<name>>)>>)

inner_decorated(s) == Node("decorated", <<simple_decorator("wraps"), inner_funcdef(s)>>)

RECURSIVE Stmts(_)
Stmts(d) ==
    IF d = 0 THEN BaseStmts
    ELSE LET inner == Stmts(d - 1)
         IN  BaseStmts \cup {if_stmt(s) : s \in inner} \cup {inner_funcdef(s) : s \in inner}
             \cup {inner_classdef(s) : s \in inner} \cup {inner_decorated(s) : s \in inner}

\* bodies: one statement, or a compound statement followed by a simple one
Bodies ==
    {<<s>> : s \in Stmts(MaxDepth)}
    \cup {<<s, t>> : s \in Stmts(MaxDepth) \ BaseStmts, t \in BaseStmts}

\* -- where the funcdef sits: the types of its ancestors (parent first) and the
\*    decorator nodes of a 'decorated' parent

Place(ancestors, decorators) == [ancestors |-> ancestors, decorators |-> decorators]

InModule == <<"file_input">>

InClass == <<"suite", "classdef", "file_input">>

InMethod == <<"suite", "funcdef", "suite", "classdef", "file_input">>

InClassIf == <<"suite", "if_stmt", "suite", "classdef", "file_input">>

StackedDecorators ==
    <<simple_decorator("contextmanager"), simple_decorator("classmethod"),
      decorator(<<Leaf("NAME", <<"wrapped">>), Leaf("LPAR", <<"(">>),
                  Leaf("STRING", <<"'", "func", "'">>), Leaf("RPAR", <<")">>)>>)>>

DottedDecorator ==
    decorator(<<Node("dotted_name", <<Leaf("NAME", <<"abc">>), Leaf("DOT", <<".">>),
                                      Leaf("NAME", <<"abstractmethod">>)>>)>>)

Places ==
    {Place(InModule, <<>>), Place(InClass, <<>>), Place(InMethod, <<>>),
     Place(InClassIf, <<>>),
     Place(<<"decorated">> \o InModule, <<simple_decorator("classmethod")>>),
     Place(<<"decorated">> \o InClass, <<simple_decorator("classmethod")>>),
     Place(<<"decorated">> \o InClass, <<simple_decorator("staticmethod")>>),
     Place(<<"decorated">> \o InClass, StackedDecorators),
     Place(<<"decorated">> \o InClass, <<DottedDecorator>>),
     Place(<<"decorated">> \o InClass,
           <<simple_decorator("staticmethod"), simple_decorator("classmethod")>>)}

\* -- the funcdef node: 'def' name parameters< '(' [args] ')' > tail suite

FuncDef(name, place, ps, tail, suite) ==
    [name |-> LeafP("NAME", name, <<" ">>),
     ancestors |-> place.ancestors,
     decorators |-> place.decorators,
     args |-> args_of(ps),
     rpar |-> Leaf("RPAR", <<")">>),
     tail |-> tail,
     suite |-> suite]

Colon == <<Leaf("COLON", <<":">>)>>

Arrow(t) ==
    <<LeafP("RARROW", <<"->">>, <<" ">>), LeafP("NAME", <<t>>, <<" ">>), Leaf("COLON", <<":">>)>>

FuncNames == {<<"foo">>, <<"__", "init", "__">>, <<"__", "str", "__">>}

RECURSIVE SeqsUpTo(_, _)
SeqsUpTo(S, n) ==
    IF n = 0 THEN {<<>>}
    ELSE LET shorter == SeqsUpTo(S, n - 1)
         IN  shorter \cup {Append(s, x) : s \in shorter, x \in S}

FirstNames == {"self", "cls", "arg"}

\* parameter lists of at most MaxParams parameters named self, cls or arg
NamedParams == SeqsUpTo({Plain(n) : n \in FirstNames}, MaxParams)

\* parameter lists with defaults, stars and hand-written annotations
RichKinds ==
    {Plain("arg"), Param("*", "args", "", "none"), Param("**", "kw", "", "none"),
     Param("", "arg", "int", "none"), Param("", "arg", "int", "int")}
    \cup {Param("", "arg", "", d) : d \in DefaultKinds}

RichParams == SeqsUpTo(RichKinds, MaxParams)

\* n parameters: first, a2, ..., an
LongParams ==
    {[i \in 1..n |-> Plain(IF i = 1 THEN f ELSE "arg")] : n \in 3..MaxLong, f \in FirstNames}

BlockSuites == {Suite(<<>>, b) : b \in Bodies}

TypeComment == <<"    ", "# type:", " ", "(...) -> None", "\n">>

\* a body marked already, ordinary comments, and a one-line body
OtherSuites ==
    {Suite(TypeComment, <<return_value>>),
     Suite(<<"    ", "# note", "\n">>, <<return_value>>),
     Suite(<<>>, <<pass_stmt, with_prefix(return_value, <<"# type:", " ", "ignore", "\n">>)>>),
     with_prefix(return_value, <<" ">>)}

PlainSuite == Suite(<<>>, <<return_value>>)

Funcs ==
    {FuncDef(n, p, ps, Colon, s) :
        n \in {<<"foo">>, <<"__", "init", "__">>}, p \in Places, ps \in NamedParams,
        s \in {PlainSuite, Suite(<<>>, <<pass_stmt>>)}}
    \cup {FuncDef(<<"foo">>, Place(InModule, <<>>), ps, Colon, PlainSuite) :
            ps \in RichParams}
    \cup {FuncDef(n, Place(InModule, <<>>), <<Plain("arg")>>, Colon, s) :
            n \in FuncNames, s \in BlockSuites}
    \cup {FuncDef(n, p, ps, Colon, s) :
            n \in {<<"foo">>, <<"__", "str", "__">>},
            p \in {Place(InModule, <<>>), Place(InClass, <<>>)},
            ps \in {<<>>, <<Plain("arg")>>, <<Plain("self"), Plain("arg")>>,
                    <<Param("", "arg", "int", "none")>>},
            s \in OtherSuites \cup {PlainSuite}}
    \cup {FuncDef(<<"foo">>, Place(InModule, <<>>), <<Plain("arg")>>, Arrow("Any"), PlainSuite)}
    \cup {FuncDef(n, p, ps, Colon, PlainSuite) :
            n \in {<<"foo">>, <<"__", "init", "__">>},
            p \in {Place(InModule, <<>>), Place(InClass, <<>>),
                   Place(<<"decorated">> \o InClass, <<simple_decorator("classmethod")>>),
                   Place(<<"decorated">> \o InClass, <<simple_decorator("staticmethod")>>)},
            ps \in LongParams}


\* ---------------------------------------------------------------- the fixer

\* PATTERN: funcdef< 'def' name=any parameters< '(' [args=any] ')' > ':' suite=any+ >
pattern_match(n) == Len(n.tail) = 1 /\ n.tail[1].type = "COLON"

\* the children of the parameters node
parm_list_children(n) ==
    <<Leaf("LPAR", <<"(">>)>> \o (IF n.args = NoNode THEN <<>> ELSE <<n.args>>) \o <<n.rpar>>

\* the funcdef node as a tree
funcdef_tree(n) ==
    Node("funcdef", <<Leaf("NAME", <<"def">>), n.name, Node("parameters", parm_list_children(n))>>
                    \o n.tail \o <<n.suite>>)

\* mutant: an enclosing def does not end the search for a class
RECURSIVE is_method_walk_through_defs(_)
is_method_walk_through_defs(anc) ==
    IF anc = <<>> THEN FALSE
    ELSE IF Head(anc) = "classdef" THEN TRUE
    ELSE is_method_walk_through_defs(Tail(anc))

RECURSIVE is_method_walk(_)
is_method_walk(anc) ==
    IF anc = <<>> THEN FALSE
    ELSE IF Head(anc) = "classdef" THEN TRUE
    ELSE IF Head(anc) = "funcdef" THEN FALSE
    ELSE is_method_walk(Tail(anc))

is_method(n) == is_method_walk(n.ancestors)

RECURSIVE name_leaves(_)
name_leaves(children) ==
    IF children = <<>> THEN <<>>
    ELSE (IF Head(children).leaf /\ Head(children).type = "NAME"
          THEN <<Head(children).value>> ELSE <<>>)
         \o name_leaves(Tail(children))

RECURSIVE decorator_names(_)
decorator_names(ds) ==
    IF ds = <<>> THEN <<>>
    ELSE name_leaves(Head(ds).children) \o decorator_names(Tail(ds))

\* mutant: of stacked decorators only the first is read
get_decorators_first(n) ==
    IF n.ancestors = <<>> THEN <<>>
    ELSE IF n.ancestors[1] # "decorated" THEN <<>>
    ELSE name_leaves(n.decorators[1].children)

get_decorators(n) ==
    IF n.ancestors = <<>> THEN <<>>
    ELSE IF n.ancestors[1] # "decorated" THEN <<>>
    ELSE decorator_names(n.decorators)

is_in(x, list) == \E i \in DOMAIN list : list[i] = x

\* RETURN_EXPR = "return_stmt< 'return' any >"
return_expr_match(t) ==
    /\ ~t.leaf
    /\ t.type = "return_stmt"
    /\ Len(t.children) = 2
    /\ t.children[1].value = <<"return">>

\* mutant: the traversal stops at nested defs but not at nested classes
RECURSIVE has_return_exprs_in_classes(_)
has_return_exprs_in_classes(t) ==
    \/ return_expr_match(t)
    \/ \E i \in DOMAIN t.children :
          /\ t.children[i].type # "funcdef"
          /\ has_return_exprs_in_classes(t.children[i])

RECURSIVE has_return_exprs(_)
has_return_exprs(t) ==
    \/ return_expr_match(t)
    \/ \E i \in DOMAIN t.children :
          /\ t.children[i].type \notin {"funcdef", "classdef"}
          /\ has_return_exprs(t.children[i])

\* the type a default value's leaf implies ('' when it implies none)
default_type(child, inferred_type) ==
    IF child.type = "NUMBER"
    THEN (IF int_re_match(child.value) THEN <<"int">> ELSE <<"float">>)
    ELSE IF child.type = "STRING"
    THEN (IF child.value[1] \in {"u", "U"} THEN <<"unicode">> ELSE <<"str">>)
    ELSE IF child.type = "NAME" /\ child.value \in {<<"True">>, <<"False">>}
    THEN <<"bool">>
    ELSE inferred_type

\* one iteration of make_annotation's loop over the children of args
annotation_step(st, child, is_meth, decorators, hints) ==
    IF ~child.leaf THEN st
    ELSE IF child.value \in {<<"*">>, <<"**">>}
    THEN (IF ~hints THEN [st EXCEPT !.stars = @ \o child.value] ELSE st)
    ELSE IF child.type = "NAME" /\ ~st.in_default
    THEN (IF ~is_meth \/ ~st.at_start \/ is_in(<<"staticmethod">>, decorators)
          THEN [st EXCEPT !.inferred_type = <<"Any">>]
          ELSE IF child.value = <<"self">> \/ is_in(<<"classmethod">>, decorators)
          THEN [st EXCEPT !.skipped_first = TRUE]
          ELSE [st EXCEPT !.inferred_type = <<"Any">>])
    ELSE IF child.value = <<"=">>
    THEN [st EXCEPT !.in_default = TRUE]
    ELSE IF st.in_default /\ child.value # <<",">>
    THEN [st EXCEPT !.inferred_type = default_type(child, @)]
    ELSE IF child.value = <<",">>
    THEN [st EXCEPT !.argtypes = IF st.inferred_type # <<>>
                                 THEN Append(@, st.stars \o st.inferred_type) ELSE @,
                    !.stars = <<>>, !.inferred_type = <<>>,
                    !.in_default = FALSE, !.at_start = FALSE]
    ELSE st

RECURSIVE annotation_loop(_, _, _, _, _)
annotation_loop(st, children, is_meth, decorators, hints) ==
    IF children = <<>> THEN st
    ELSE annotation_loop(annotation_step(st, Head(children), is_meth, decorators, hints),
                         Tail(children), is_meth, decorators, hints)

\* results.get('args') as a list of children
args_children(n) ==
    IF n.args = NoNode THEN <<>>
    ELSE IF n.args.leaf THEN <<n.args>>
    ELSE n.args.children

\* mutant: __init__ is treated like any other function
restype_of_body(n) ==
    IF ~has_return_exprs(funcdef_tree(n)) THEN <<"None">> ELSE <<"Any">>

restype_of(n) ==
    IF n.name.value = <<"__", "init", "__">> \/ ~has_return_exprs(funcdef_tree(n))
    THEN <<"None">> ELSE <<"Any">>

make_annotation(n, hints) ==
    LET st0 == [stars |-> <<>>, inferred_type |-> <<>>, in_default |-> FALSE,
                at_start |-> TRUE, skipped_first |-> FALSE, argtypes |-> <<>>]
        st == annotation_loop(st0, args_children(n), is_method(n), get_decorators(n), hints)
    IN  [argtypes |-> IF st.inferred_type # <<>>
                      THEN Append(st.argtypes, st.stars \o st.inferred_type)
                      ELSE st.argtypes,
         restype |-> restype_of(n),
         skipped_first |-> st.skipped_first]

\* one iteration of get_parm_list's loop; a parm is the index of its leaf
parm_step(st, parm, i) ==
    IF st.skip
    THEN (IF parm.type = "COMMA"
          THEN [st EXCEPT !.skip = FALSE,
                          !.parms = IF st.working_parm # 0 THEN Append(@, st.working_parm) ELSE @,
                          !.working_parm = 0]
          ELSE st)
    ELSE IF parm.type = "NAME" THEN [st EXCEPT !.working_parm = i]
    ELSE IF parm.type = "COLON" THEN [st EXCEPT !.working_parm = 0, !.skip = TRUE]
    ELSE IF parm.type = "EQUAL" THEN [st EXCEPT !.skip = TRUE]
    ELSE IF parm.type = "COMMA"
    THEN [st EXCEPT !.parms = IF st.working_parm # 0 THEN Append(@, st.working_parm) ELSE @,
                    !.working_parm = 0]
    ELSE st

RECURSIVE parm_loop(_, _, _)
parm_loop(st, children, i) ==
    IF i > Len(children) THEN st
    ELSE parm_loop(parm_step(st, children[i], i), children, i + 1)

UnexpectedAST == [msg |-> "Unexpected AST", file |-> TRUE, line |-> TRUE, func |-> FALSE]

\* the parameter leaves: indices into args.children, 0 for args itself
get_parm_list(plc) ==
    IF Len(plc) = 2 /\ plc[1].type = "LPAR" /\ plc[2].type = "RPAR"
    THEN [parms |-> <<>>, log |-> <<>>]
    ELSE IF Len(plc) # 3 \/ plc[1].type # "LPAR" \/ plc[3].type # "RPAR"
    THEN [parms |-> <<>>, log |-> <<UnexpectedAST>>]
    ELSE IF ~plc[2].leaf
    THEN LET st == parm_loop([skip |-> FALSE, working_parm |-> 0, parms |-> <<>>],
                             plc[2].children, 1)
         IN  [parms |-> IF st.working_parm # 0 THEN Append(st.parms, st.working_parm)
                        ELSE st.parms,
              log |-> <<>>]
    ELSE [parms |-> <<0>>, log |-> <<>>]

\* lib2to3's touch_import('typing', 'Any', node)
touch_import(imports) == IF imports = "none" THEN "added" ELSE imports

patch_imports(types, imports) ==
    IF \E i \in DOMAIN types : is_in("Any", types[i]) THEN touch_import(imports) ELSE imports

decrement(c) == IF c # None THEN <<c[1] - 1>> ELSE c

\* parm.value = '%s: %s' % (parm.value, annotation) for the zipped pairs
RECURSIVE annotate_parms(_, _, _)
annotate_parms(args, parms, argtypes) ==
    IF parms = <<>> \/ argtypes = <<>> THEN args
    ELSE LET i == Head(parms)
             hint == <<":", " ">> \o Head(argtypes)
             edited == IF i = 0 THEN [args EXCEPT !.value = @ \o hint]
                       ELSE [args EXCEPT !.children[i].value = @ \o hint]
         IN  annotate_parms(edited, Tail(parms), Tail(argtypes))

ParameterCount ==
    [msg |-> "Unexpected parameter count", file |-> TRUE, line |-> TRUE, func |-> TRUE]

\* the result of transform: the node, the class counter, the imports, the log
Result(n, c, imports, log, out, an) ==
    [node |-> n, counter |-> c, tree_imports |-> imports, logged |-> log,
     outcome |-> out, annot |-> an]

insert_python_3_annotation(n, an, c, imports) ==
    LET got == get_parm_list(parm_list_children(n))
        parm_count == Len(got.parms)
        parms == IF parm_count > 0 /\ an.skipped_first THEN Tail(got.parms) ELSE got.parms
        mismatch == parm_count > 0 /\ Len(parms) # Len(an.argtypes)
        with_parms == IF parm_count > 0
                      THEN [n EXCEPT !.args = annotate_parms(@, parms, an.argtypes)]
                      ELSE n
        rtn == n.tail[1]
        with_rtn == IF rtn.type = "COLON" /\ ~startswith(n.name.value, "__")
                    THEN [with_parms EXCEPT !.tail[1].value = <<" ", "->", " ">> \o an.restype \o <<":">>]
                    ELSE with_parms
    IN  IF mismatch
        THEN Result(n, c, imports, got.log \o <<ParameterCount>>, "mismatch", an)
        ELSE Result(with_rtn, decrement(c),
                    patch_imports(an.argtypes \o <<an.restype>>, imports),
                    got.log, "inline", an)


\* set_prefix(child) of insert_long_form: pops the next type off argtypes
set_prefix(child, argtypes, indent) ==
    LET arg == IF argtypes # <<>> THEN lstrip_stars(Head(argtypes)) ELSE <<"Any">>
        old_prefix == strip(child.prefix)
        prefix == IF arg = <<>> THEN rstrip(child.prefix)
                  ELSE <<"  ", "# type:", " ">> \o arg
                       \o (IF old_prefix # <<>> THEN <<"  ">> \o old_prefix ELSE <<>>)
    IN  [child |-> [child EXCEPT !.prefix = prefix \o <<"\n">> \o indent],
         argtypes |-> IF argtypes # <<>> THEN Tail(argtypes) ELSE argtypes,
         ok |-> arg = <<>> \/ old_prefix = <<>> \/ Head(old_prefix) \in CommentAtoms]

\* one iteration of insert_long_form's loop over the children of args
long_form_step(st, i) ==
    LET child == st.kids[i]
        is_first_name == st.check_self /\ child.leaf /\ child.type = "NAME"
        types == IF is_first_name /\ child.value \in {<<"self">>, <<"cls">>}
                 THEN <<<<>>>> \o st.argtypes ELSE st.argtypes
        indent == IF st.indent = <<>> THEN <<"        ">> ELSE st.indent
        sp == set_prefix(child, types, indent)
        base == [st EXCEPT !.check_self = IF is_first_name THEN FALSE ELSE @,
                           !.argtypes = types, !.indent = indent]
    IN  IF child.leaf /\ child.value = <<",">> THEN [base EXCEPT !.flag = TRUE]
        ELSE IF child.leaf /\ st.flag
        THEN [base EXCEPT !.kids[i] = sp.child, !.argtypes = sp.argtypes,
                          !.flag = FALSE, !.ok = @ /\ sp.ok]
        ELSE base

RECURSIVE long_form_loop(_, _)
long_form_loop(st, i) ==
    IF i > Len(st.kids) \/ ~st.ok THEN st
    ELSE long_form_loop(long_form_step(st, i), i + 1)

\* the node with a trailing '# type:' comment per parameter; ok is FALSE when
\* one of its assert statements fails (or results['args'] is missing)
insert_long_form(n, argtypes) ==
    LET st == long_form_loop([argtypes |-> argtypes, flag |-> FALSE, indent |-> <<>>,
                              check_self |-> is_method(n), kids |-> args_children(n),
                              ok |-> n.args # NoNode], 1)
        with_kids == IF n.args = NoNode THEN n
                     ELSE IF n.args.leaf THEN [n EXCEPT !.args = st.kids[1]]
                     ELSE [n EXCEPT !.args.children = st.kids]
        sp == set_prefix(n.rpar, st.argtypes, st.indent)
    IN  IF ~st.ok THEN [node |-> with_kids, ok |-> FALSE]
        ELSE [node |-> [with_kids EXCEPT !.rpar = sp.child],
              ok |-> sp.ok /\ sp.argtypes = <<>>]

MaxShortLen == 64

MaxShortArgs == 5

degen_str(an) == <<"(...) -> ">> \o an.restype

short_str(an) == <<"(">> \o join(", ", an.argtypes) \o <<") -> ">> \o an.restype

\* mutant: five entries already count as too many
use_long_form_from_five(an) ==
    /\ StrLen(short_str(an)) > MaxShortLen \/ Len(an.argtypes) >= MaxShortArgs
    /\ StrLen(short_str(an)) > StrLen(degen_str(an))

use_long_form(an) ==
    /\ StrLen(short_str(an)) > MaxShortLen \/ Len(an.argtypes) > MaxShortArgs
    /\ StrLen(short_str(an)) > StrLen(degen_str(an))

OneLine ==
    [msg |-> "cannot insert annotation for one-line function",
     file |-> TRUE, line |-> TRUE, func |-> FALSE]

insert_python_2_annotation(n, an, c, imports) ==
    LET children == n.suite.children
        long == use_long_form(an)
        lf == IF long THEN insert_long_form(n, an.argtypes) ELSE [node |-> n, ok |-> TRUE]
        annot_str == IF long THEN degen_str(an) ELSE short_str(an)
        marked == [lf.node EXCEPT !.suite.children[2].prefix =
                       children[2].value \o <<"# type:", " ">> \o annot_str \o <<"\n">> \o @]
    IN  IF Len(children) >= 2 /\ children[2].type = "INDENT"
        THEN (IF ~lf.ok
              THEN Result(lf.node, c, imports, <<>>, "long_crash", an)
              ELSE Result(marked, decrement(c),
                          patch_imports(an.argtypes \o <<an.restype>>, imports),
                          <<>>, IF long THEN "long" ELSE "compact", an))
        ELSE Result(n, c, imports, <<OneLine>>, "oneline", an)

NoAnnot == [argtypes |-> <<>>, restype |-> <<>>, skipped_first |-> FALSE]

\* mutant: the check for an existing '# type:' comment is missing
already_annotated_never(n) == FALSE

\* a '# type:' comment leads the prefix of a child of the suite
already_annotated(n) ==
    \E i \in DOMAIN n.suite.children :
        startswith(lstrip(prefix_of(n.suite.children[i])), "# type:")

\* mutant: the budget is never looked at
budget_never_exhausted(c) == FALSE

budget_exhausted(c) == c # None /\ c[1] <= 0

transform(n, hints, c, imports) ==
    IF budget_exhausted(c) THEN Result(n, c, imports, <<>>, "budget", NoAnnot)
    ELSE IF already_annotated(n) THEN Result(n, c, imports, <<>>, "marked", NoAnnot)
    ELSE IF hints THEN insert_python_3_annotation(n, make_annotation(n, hints), c, imports)
    ELSE insert_python_2_annotation(n, make_annotation(n, hints), c, imports)


\* ---------------------------------------------------------------- a second run
\* The output text is parsed again: an edited leaf 'name: T' is a tname node
\* and an edited ' -> T:' is the three leaves '->' T ':'.

reparse_leaf(child) ==
    IF child.leaf /\ child.type = "NAME" /\ Len(child.value) > 1
    THEN Node("tname", <<LeafP("NAME", <<child.value[1]>>, child.prefix),
                         Leaf("COLON", <<child.value[2]>>),
                         LeafP("NAME", SubSeq(child.value, 4, Len(child.value)),
                               <<child.value[3]>>)>>)
    ELSE child

reparse_args(args) ==
    IF args.leaf THEN reparse_leaf(args)
    ELSE [args EXCEPT !.children = [i \in DOMAIN @ |-> reparse_leaf(@[i])]]

reparse_tail(tail) ==
    IF Len(tail) = 1 /\ Len(tail[1].value) > 1
    THEN LET v == tail[1].value
         IN  <<LeafP("RARROW", <<v[2]>>, <<v[1]>>), LeafP("NAME", <<v[4]>>, <<v[3]>>),
               Leaf("COLON", <<v[5]>>)>>
    ELSE tail

reparse(n) == [n EXCEPT !.args = reparse_args(@), !.tail = reparse_tail(@)]

func_text(n) == text_of(funcdef_tree(n))

RECURSIVE count_any(_)
count_any(s) ==
    IF s = <<>> THEN 0 ELSE (IF Head(s) = "Any" THEN 1 ELSE 0) + count_any(Tail(s))

\* ---------------------------------------------------------------- the run

NoFunc ==
    [name |-> NoNode, ancestors |-> <<>>, decorators |-> <<>>, args |-> NoNode,
     rpar |-> NoNode, tail |-> <<>>, suite |-> NoNode]

Budgets == {None} \cup {<<k>> : k \in 0..MaxBudget}

Init ==
    /\ type_hints \in BOOLEAN
    /\ maxfixes \in Budgets
    /\ counter = maxfixes
    /\ counter2 = maxfixes
    /\ tree_imports \in {"none", "existing"}
    /\ pc = "scan"
    /\ node = NoFunc
    /\ orig = NoFunc
    /\ node2 = NoFunc
    /\ annot = NoAnnot
    /\ outcome = ""
    /\ logged = <<>>
    /\ nseen = 0
    /\ nedited = 0
    /\ wrote_any = FALSE
    /\ import2 = FALSE
    /\ source = <<>> /\ data = <<>> /\ reverted = <<>> /\ again = <<>> /\ mpc = "idle"

\* the driver reaches the next funcdef node that PATTERN matches
Match ==
    /\ pc = "scan"
    /\ nseen < MaxFuncs
    /\ \E f \in Funcs :
          /\ pattern_match(f)
          /\ node' = f
          /\ orig' = f
    /\ pc' = "matched"
    /\ nseen' = nseen + 1
    /\ UNCHANGED <<type_hints, maxfixes, counter, tree_imports, annot, outcome, logged,
                   nedited, wrote_any, counter2, node2, import2, main_vars>>

\* FixAnnotate.transform(node, results)
Transform ==
    /\ pc = "matched"
    /\ LET r == transform(node, type_hints, counter, tree_imports)
       IN  /\ node' = r.node
           /\ counter' = r.counter
           /\ tree_imports' = r.tree_imports
           /\ logged' = r.logged
           /\ outcome' = r.outcome
           /\ annot' = r.annot
           /\ pc' = IF r.outcome = "long_crash" THEN "crashed" ELSE "done"
           /\ nedited' = IF func_text(r.node) # func_text(node) THEN nedited + 1 ELSE nedited
           /\ wrote_any' = (wrote_any \/ count_any(func_text(r.node)) > count_any(func_text(node)))
    /\ UNCHANGED <<type_hints, maxfixes, orig, nseen, counter2, node2, import2, main_vars>>

\* a second run of the fixer meets the same function in the output of the first
Rerun ==
    /\ pc = "done"
    /\ LET n == reparse(node)
           r == IF pattern_match(n) THEN transform(n, type_hints, counter2, tree_imports)
                ELSE Result(n, counter2, tree_imports, <<>>, "unmatched", NoAnnot)
       IN  /\ node2' = r.node
           /\ counter2' = r.counter
           /\ import2' = (r.tree_imports # tree_imports)
           /\ pc' = IF r.outcome = "long_crash" THEN "crashed" ELSE "rerun"
    /\ UNCHANGED <<type_hints, maxfixes, counter, tree_imports, node, orig, annot, outcome,
                   logged, nseen, nedited, wrote_any, main_vars>>

AdvanceFrom(at) ==
    /\ pc = at
    /\ pc' = "scan"
    /\ node' = NoFunc
    /\ orig' = NoFunc
    /\ node2' = NoFunc
    /\ annot' = NoAnnot
    /\ outcome' = ""
    /\ logged' = <<>>
    /\ import2' = FALSE
    /\ UNCHANGED <<type_hints, maxfixes, counter, tree_imports, nseen, nedited, wrote_any,
                   counter2, main_vars>>

\* the driver leaves the node and goes on scanning
Advance == AdvanceFrom("done")

AdvanceRerun == AdvanceFrom("rerun")

Next == Match \/ Transform \/ Advance

Spec == Init /\ [][Next]_vars

NextRerun == Match \/ Transform \/ Rerun \/ AdvanceRerun

SpecRerun == Init /\ [][NextRerun]_vars


\* ---------------------------------------------------------------- annotations/main.py
\* A type expression: an atomic name, a generic with parameters, a union, or
\* the unknown type (rendered Any).

Atomic(name) == [tag |-> "Atomic", name |-> name, params |-> <<>>]

Parameterized(name, ps) == [tag |-> "Parameterized", name |-> name, params |-> ps]

UnionOf(ms) == [tag |-> "UnionOf", name |-> "Union", params |-> ms]

Unknown == [tag |-> "Unknown", name |-> "Any", params |-> <<>>]

Optional(t) == Parameterized("Optional", <<t>>)

ARG_POS == "ARG_POS"

ARG_STAR == "ARG_STAR"

ARG_STARSTAR == "ARG_STARSTAR"

\* str(type): a name, or name[p1, p2, ...]
RECURSIVE render(_)
render(t) ==
    IF t.params = <<>> THEN <<t.name>>
    ELSE <<t.name, "[">> \o join(", ", [i \in DOMAIN t.params |-> render(t.params[i])])
         \o <<"]">>

\* the canonical order of union members: by name
NameOrder == <<"Dict", "List", "None", "Optional", "Union", "Any", "bool", "float", "int", "str">>

NameRank(name) == CHOOSE i \in DOMAIN NameOrder : NameOrder[i] = name

RECURSIVE insert_sorted(_, _)
insert_sorted(t, ms) ==
    IF ms = <<>> THEN <<t>>
    ELSE IF t = Head(ms) THEN ms
    ELSE IF NameRank(t.name) < NameRank(Head(ms).name) THEN <<t>> \o ms
    ELSE <<Head(ms)>> \o insert_sorted(t, Tail(ms))

RECURSIVE sort_members(_)
sort_members(ms) ==
    IF ms = <<>> THEN <<>> ELSE insert_sorted(Head(ms), sort_members(Tail(ms)))

\* the members of a union with nested unions flattened
RECURSIVE flatten(_)
flatten(ms) ==
    IF ms = <<>> THEN <<>>
    ELSE (IF Head(ms).tag = "UnionOf" THEN flatten(Head(ms).params) ELSE <<Head(ms)>>)
         \o flatten(Tail(ms))

\* a union is flat, without duplicates and in canonical order
RECURSIVE canonical(_)
canonical(t) ==
    LET ps == [i \in DOMAIN t.params |-> canonical(t.params[i])]
        ms == sort_members(flatten(ps))
    IN  IF t.tag = "UnionOf" THEN (IF Len(ms) = 1 THEN ms[1] ELSE UnionOf(ms))
        ELSE IF t.tag = "Parameterized" THEN Parameterized(t.name, ps)
        ELSE t

Numeric == <<"bool", "int", "float", "complex">>

IsNumeric(t) == t.tag = "Atomic" /\ \E i \in DOMAIN Numeric : Numeric[i] = t.name

NumericRank(t) == CHOOSE i \in DOMAIN Numeric : Numeric[i] = t.name

IsNone(t) == t.tag = "Atomic" /\ t.name = "None"

IsOptional(t) == t.tag = "Parameterized" /\ t.name = "Optional"

\* merge(a, b) of the signature merge engine
RECURSIVE merge(_, _)
merge(a, b) ==
    IF a = b THEN a
    ELSE IF IsOptional(a) /\ IsOptional(b) THEN Optional(merge(a.params[1], b.params[1]))
    ELSE IF IsNone(a) THEN (IF IsOptional(b) THEN b ELSE Optional(b))
    ELSE IF IsNone(b) THEN (IF IsOptional(a) THEN a ELSE Optional(a))
    ELSE IF IsNumeric(a) /\ IsNumeric(b)
    THEN (IF NumericRank(a) >= NumericRank(b) THEN a ELSE b)
    ELSE IF a.tag = "Unknown" THEN b
    ELSE IF b.tag = "Unknown" THEN a
    ELSE IF /\ a.tag = "Parameterized" /\ b.tag = "Parameterized"
            /\ a.name = b.name /\ Len(a.params) = Len(b.params)
    THEN Parameterized(a.name, [i \in DOMAIN a.params |-> merge(a.params[i], b.params[i])])
    ELSE canonical(UnionOf(<<a, b>>))

\* the tokens that are not names
Punct == {"(", ") -> ", "[", "]", ", ", "*", "**"}

ParseError == [ok |-> FALSE]

make_type(name, ps) ==
    IF name = "Union" THEN UnionOf(ps)
    ELSE Parameterized(name, ps)

\* the recursive-descent reader of a type expression at token i of toks:
\* a name, or a name followed by a bracketed list of type expressions
RECURSIVE parse_type(_, _)
RECURSIVE parse_params(_, _, _)
parse_type(toks, i) ==
    IF i > Len(toks) \/ toks[i] \in Punct THEN ParseError
    ELSE IF i + 1 <= Len(toks) /\ toks[i + 1] = "["
    THEN LET r == parse_params(toks, i + 2, <<>>)
         IN  IF ~r.ok THEN ParseError
             ELSE [ok |-> TRUE, type |-> make_type(toks[i], r.types), next |-> r.next]
    ELSE [ok |-> TRUE, type |-> IF toks[i] = "Any" THEN Unknown ELSE Atomic(toks[i]),
          next |-> i + 1]

parse_params(toks, i, acc) ==
    LET r == parse_type(toks, i)
    IN  IF ~r.ok \/ r.next > Len(toks) THEN ParseError
        ELSE IF toks[r.next] = ", " THEN parse_params(toks, r.next + 1, Append(acc, r.type))
        ELSE IF toks[r.next] = "]"
        THEN [ok |-> TRUE, types |-> Append(acc, r.type), next |-> r.next + 1]
        ELSE ParseError

\* the arguments of '(t1, *t2, **t3) -> tr' from token i on, up to ') -> '
RECURSIVE parse_args(_, _, _)
parse_args(toks, i, acc) ==
    IF i > Len(toks) THEN ParseError
    ELSE IF toks[i] = ") -> " /\ acc = <<>>
    THEN [ok |-> TRUE, args |-> acc, next |-> i + 1]
    ELSE LET kind == IF toks[i] = "*" THEN ARG_STAR
                     ELSE IF toks[i] = "**" THEN ARG_STARSTAR ELSE ARG_POS
             r == parse_type(toks, IF kind = ARG_POS THEN i ELSE i + 1)
             arg == [type |-> r.type, kind |-> kind]
         IN  IF ~r.ok \/ r.next > Len(toks) THEN ParseError
             ELSE IF toks[r.next] = ", " THEN parse_args(toks, r.next + 1, Append(acc, arg))
             ELSE IF toks[r.next] = ") -> "
             THEN [ok |-> TRUE, args |-> Append(acc, arg), next |-> r.next + 1]
             ELSE ParseError

\* one raw signature string read as argument types with kinds and a return type
parse_type_comment(comment) ==
    IF comment = <<>> \/ Head(comment) # "(" THEN ParseError
    ELSE LET a == parse_args(comment, 2, <<>>)
             r == parse_type(comment, a.next)
         IN  IF ~a.ok THEN ParseError
             ELSE IF ~r.ok \/ r.next # Len(comment) + 1 THEN ParseError
             ELSE [ok |-> TRUE, args |-> a.args, ret |-> r.type]

\* the merge of the observed calls, slot by slot; a slot missing from a call
\* merges with the unknown type
slot_type(call, i) == IF i <= Len(call.args) THEN call.args[i].type ELSE Unknown

RECURSIVE merge_calls(_, _)
merge_calls(sig, calls) ==
    IF calls = <<>> THEN sig
    ELSE LET c == Head(calls)
             n == IF Len(c.args) > Len(sig.args) THEN Len(c.args) ELSE Len(sig.args)
             kind_of(i) == IF i <= Len(sig.args) THEN sig.args[i].kind ELSE c.args[i].kind
             merged == [args |-> [i \in 1..n |->
                                    [type |-> merge(slot_type(sig, i), slot_type(c, i)),
                                     kind |-> kind_of(i)]],
                        ret |-> merge(sig.ret, c.ret)]
         IN  merge_calls(merged, Tail(calls))

canonical_call(c) ==
    [args |-> [i \in DOMAIN c.args |->
                  [type |-> canonical(c.args[i].type), kind |-> c.args[i].kind]],
     ret |-> canonical(c.ret)]

\* infer_annotation(type_comments): (arg_types, return_type), or a parse error
infer_annotation(type_comments) ==
    LET calls == [i \in DOMAIN type_comments |-> parse_type_comment(type_comments[i])]
    IN  IF type_comments = <<>> \/ \E i \in DOMAIN calls : ~calls[i].ok THEN ParseError
        ELSE LET cs == [i \in DOMAIN calls |-> canonical_call(calls[i])]
                 sig == merge_calls(Head(cs), Tail(cs))
             IN  [ok |-> TRUE, arg_types |-> sig.args, return_type |-> sig.ret]

\* parse_json(source_path): the entries of the JSON file as items
parse_json(file) ==
    [i \in DOMAIN file |->
        [path |-> file[i].path, line |-> file[i].line, func_name |-> file[i].func_name,
         type_comments |-> file[i].type_comments, samples |-> file[i].samples]]

\* lines 39-45: the rendered argument with the prefix of its kind
arg_str(arg) ==
    IF arg.kind = ARG_STAR THEN <<"*">> \o render(arg.type)
    ELSE IF arg.kind = ARG_STARSTAR THEN <<"**">> \o render(arg.type)
    ELSE render(arg.type)

\* lines 38-56: the signature record of one item with its inferred signature
function_data(item, inferred) ==
    [path |-> item.path, line |-> item.line, func_name |-> item.func_name,
     signature |-> [arg_types |-> [i \in DOMAIN inferred.arg_types |->
                                      arg_str(inferred.arg_types[i])],
                    return_type |-> render(inferred.return_type)],
     samples |-> item.samples]

\* line 57: the record joins the results; an item whose raw signature does
\* not parse is left out
append_data(item, inferred) ==
    IF inferred.ok THEN <<function_data(item, inferred)>> ELSE <<>>

\* lines 36-57: the loop over the items
RECURSIVE generate_items(_)
generate_items(items) ==
    IF items = <<>> THEN <<>>
    ELSE append_data(Head(items), infer_annotation(Head(items).type_comments))
         \o generate_items(Tail(items))

generate_annotations_json_string(file) == generate_items(parse_json(file))

\* mutant: the argument types are joined without a separator
revert_item_unseparated(item) ==
    [path |-> item.path, line |-> item.line, func_name |-> item.func_name,
     type_comments |-> <<<<"(">> \o join("", item.signature.arg_types) \o <<") -> ">>
                         \o item.signature.return_type>>,
     samples |-> item.samples]

\* lines 64-74: the sample record of one signature record
revert_item(item) ==
    LET arg_sig == join(", ", item.signature.arg_types)
        type_comment == <<"(">> \o arg_sig \o <<") -> ">> \o item.signature.return_type
    IN  [path |-> item.path, line |-> item.line, func_name |-> item.func_name,
         type_comments |-> <<type_comment>>, samples |-> item.samples]

revert_annotations(d) == [i \in DOMAIN d |-> revert_item(d[i])]

\* -- the sample files offered to generate_annotations_json_string

RECURSIVE RawTypes(_)
RawTypes(d) ==
    IF d = 0 THEN {Atomic("int"), Atomic("str"), Atomic("None"), Unknown}
    ELSE LET T == RawTypes(d - 1)
             names == {Atomic("int"), Atomic("str"), Atomic("bool")}
         IN  T \cup {Parameterized("List", <<t>>) : t \in T}
               \cup {Parameterized("Dict", <<Atomic("str"), t>>) : t \in T}
               \cup {Optional(t) : t \in {x \in T : ~IsNone(x) /\ ~IsOptional(x)}}
               \cup {UnionOf(<<p[1], p[2]>>) : p \in {q \in names \X names : q[1] # q[2]}}

Slot(t, k) == [type |-> t, kind |-> k]

SimpleSlots ==
    {Slot(Atomic("int"), ARG_POS),
     Slot(Parameterized("Dict", <<Atomic("str"), Atomic("int")>>), ARG_POS),
     Slot(Atomic("str"), ARG_STAR), Slot(Unknown, ARG_STARSTAR)}

ReturnTypes ==
    {Atomic("None"), Unknown, Optional(Atomic("int")), Parameterized("List", <<Atomic("str")>>)}

\* a raw signature string '(t1, t2, ...) -> tr' as the collector writes it
RawComment(args, ret) ==
    <<"(">> \o join(", ", [i \in DOMAIN args |-> arg_str(args[i])]) \o <<") -> ">>
    \o render(ret)

RawComments ==
    {RawComment(<<Slot(t, ARG_POS)>> \o rest, r) :
        t \in RawTypes(MaxTypeDepth), rest \in SeqsUpTo(SimpleSlots, MaxArgs - 1),
        r \in ReturnTypes}
    \cup {RawComment(<<>>, r) : r \in ReturnTypes}

Entry(path, line, name, comments, n) ==
    [path |-> path, line |-> line, func_name |-> name, type_comments |-> comments,
     samples |-> n]

FirstEntries == {Entry("a.py", 1, "f", <<c>>, 1) : c \in RawComments}

\* functions observed with two different signatures
SecondEntries ==
    {Entry("b.py", 7, "C.g",
           <<RawComment(<<Slot(Atomic("int"), ARG_POS)>>, Atomic("None")),
             RawComment(<<Slot(Atomic("str"), ARG_POS)>>, Atomic("int"))>>, 2),
     Entry("b.py", 9, "h",
           <<RawComment(<<Slot(Atomic("bool"), ARG_POS), Slot(Atomic("int"), ARG_STAR)>>,
                        Atomic("float")),
             RawComment(<<Slot(Atomic("int"), ARG_POS)>>, Atomic("int"))>>, 5)}

Files ==
    {<<>>} \cup {<<e>> \o rest : e \in FirstEntries,
                                rest \in SeqsUpTo(SecondEntries, MaxRecords - 1)}

\* -- the run of main.py: generate, revert (save_annotations), generate again

FixerIdle ==
    /\ type_hints = FALSE /\ maxfixes = None /\ counter = None /\ counter2 = None
    /\ tree_imports = "none" /\ pc = "idle"
    /\ node = NoFunc /\ orig = NoFunc /\ node2 = NoFunc
    /\ annot = NoAnnot /\ outcome = "" /\ logged = <<>>
    /\ nseen = 0 /\ nedited = 0 /\ wrote_any = FALSE /\ import2 = FALSE

fixer_vars ==
    <<type_hints, maxfixes, counter, tree_imports, pc, node, orig, annot, outcome,
      logged, nseen, nedited, wrote_any, counter2, node2, import2>>

InitRevert ==
    /\ FixerIdle
    /\ source \in Files
    /\ data = <<>> /\ reverted = <<>> /\ again = <<>>
    /\ mpc = "loaded"

\* generate_annotations_json_string(source_path)
Generate ==
    /\ mpc = "loaded"
    /\ data' = generate_annotations_json_string(source)
    /\ mpc' = "generated"
    /\ UNCHANGED <<source, reverted, again, fixer_vars>>

\* save_annotations(data, target_path): revert_annotations(data) is written out
Revert ==
    /\ mpc = "generated"
    /\ reverted' = revert_annotations(data)
    /\ mpc' = "reverted"
    /\ UNCHANGED <<source, data, again, fixer_vars>>

\* generate_annotations_json_string over the file save_annotations wrote
GenerateAgain ==
    /\ mpc = "reverted"
    /\ again' = generate_annotations_json_string(reverted)
    /\ mpc' = "regenerated"
    /\ UNCHANGED <<source, data, reverted, fixer_vars>>

NextRevert == Generate \/ Revert \/ GenerateAgain

SpecRevert == InitRevert /\ [][NextRevert]_vars


\* ---------------------------------------------------------------- claims

Annotated == {"inline", "compact", "long"}

Edited == func_text(node) # func_text(orig)

\* C1 as stated: a second run over the output of a first run changes nothing:
\* the text of every function is the same and no import is inserted.
C1_Idempotent ==
    pc = "rerun" => func_text(node2) = func_text(node) /\ ~import2

\* C1 amended: with no edit budget configured, or with budget left over after
\* the first run, a second run over the output of the first changes nothing.
C1_IdempotentWithinBudget ==
    pc = "rerun" /\ (maxfixes = None \/ counter[1] > 0)
        => func_text(node2) = func_text(node) /\ ~import2

\* a function the first run annotated has been met again by the second run
C1_Witness ==
    pc = "rerun" /\ maxfixes = None /\ outcome \in Annotated /\ Edited

\* C2: a configured budget N bounds the edits: the counter stays within 0..N
\* and never increases, at most N functions are edited, a function matched
\* with the counter at zero is left as it is, and without a budget no
\* function is skipped for the budget.
C2_Budget ==
    /\ [](maxfixes # None =>
            /\ counter # None
            /\ counter[1] >= 0 /\ counter[1] <= maxfixes[1]
            /\ nedited <= maxfixes[1])
    /\ [](maxfixes = None => counter = None /\ outcome # "budget")
    /\ [][/\ counter # None => counter'[1] <= counter[1]
          /\ pc = "matched" /\ counter = <<0>> =>
                /\ node' = node
                /\ counter' = counter
                /\ tree_imports' = tree_imports]_vars

\* the budget ran out and a later matched function was skipped
C2_Witness ==
    /\ pc = "done" /\ outcome = "budget"
    /\ maxfixes = <<MaxBudget>> /\ counter = <<0>> /\ nedited = MaxBudget


\* -- what the claims read off a node

InitName == <<"__", "init", "__">>

\* the positions of a tree (sequences of child indices) and the node at one
RECURSIVE Paths(_)
Paths(t) ==
    {<<>>} \cup UNION {{<<i>> \o p : p \in Paths(t.children[i])} : i \in DOMAIN t.children}

RECURSIVE NodeAt(_, _)
NodeAt(t, p) == IF p = <<>> THEN t ELSE NodeAt(t.children[Head(p)], Tail(p))

ReturnsValueAt(t, p) ==
    NodeAt(t, p).type = "return_stmt" /\ Len(NodeAt(t, p).children) >= 2

\* a 'return <expr>' of the function itself: no def or class lies between
OwnReturnValue(n) ==
    LET t == funcdef_tree(n)
    IN  \E p \in Paths(t) :
            /\ ReturnsValueAt(t, p)
            /\ \A k \in 1..Len(p) :
                  NodeAt(t, SubSeq(p, 1, k)).type \notin {"funcdef", "classdef"}

NestedReturnValue(n) ==
    LET t == funcdef_tree(n)
    IN  \E p \in Paths(t) :
            /\ ReturnsValueAt(t, p)
            /\ \E k \in 1..Len(p) :
                  NodeAt(t, SubSeq(p, 1, k)).type \in {"funcdef", "classdef"}

\* the return type in the output text: after '->' of the def line, or in the
\* '# type:' comment before the body; <<>> when there is none
WrittenReturn(n) ==
    IF type_hints
    THEN (IF Len(n.tail[1].value) > 1 THEN <<n.tail[1].value[4]>> ELSE <<>>)
    ELSE LET p == n.suite.children[2].prefix
             I == {i \in DOMAIN p : p[i] \in {") -> ", "(...) -> "}}
             first == CHOOSE i \in I : \A j \in I : i <= j
         IN  IF I = {} THEN <<>> ELSE <<p[first + 1]>>


\* the parameters are bare names: NAME leaves separated by commas
PlainParams(n) ==
    /\ args_children(n) # <<>>
    /\ \A i \in DOMAIN args_children(n) :
          args_children(n)[i].leaf /\ args_children(n)[i].type \in {"NAME", "COMMA"}

NParams(n) == Cardinality({i \in DOMAIN args_children(n) : args_children(n)[i].type = "NAME"})

FirstName(n) == args_children(n)[1].value

\* the number of parameter types written: every Any written but the return type
WrittenTypeCount ==
    count_any(func_text(node)) - count_any(func_text(orig))
    - (IF WrittenReturn(node) = <<"Any">> THEN 1 ELSE 0)

\* the output leaves the first parameter without a type / gives it the type Any
\* (inline: its leaf; compact comment: one type fewer than parameters; long
\* form: the decision make_annotation returned)
FirstSkipped ==
    /\ annot.skipped_first
    /\ outcome = "inline" => args_children(node)[1] = args_children(orig)[1]
    /\ outcome = "compact" => WrittenTypeCount = NParams(orig) - 1

FirstTyped ==
    /\ ~annot.skipped_first
    /\ outcome = "inline" =>
          args_children(node)[1].value = FirstName(orig) \o <<":", " ", "Any">>
    /\ outcome = "compact" => WrittenTypeCount = NParams(orig)

\* the nearest enclosing def or class is a class
DirectlyInClass(n) ==
    \E i \in DOMAIN n.ancestors :
        /\ n.ancestors[i] = "classdef"
        /\ \A j \in 1..(i - 1) : n.ancestors[j] \notin {"classdef", "funcdef"}

\* one of the decorators of the function is the plain name
HasDecorator(n, name) ==
    \E i \in DOMAIN n.decorators :
        LET d == n.decorators[i].children
        IN  Len(d) >= 2 /\ d[2].leaf /\ d[2].type = "NAME" /\ d[2].value = <<name>>

\* the number of parameters insert_python_3_annotation is left with
live_parms(n, an) ==
    LET k == Len(get_parm_list(parm_list_children(n)).parms)
    IN  IF k > 0 /\ an.skipped_first THEN k - 1 ELSE k

\* C3: in inline style a function whose live parameter count differs from the
\* number of argument types is left unedited: text, counter and imports are
\* as before, and a diagnostic is logged.
C3_ArityMismatch ==
    [][/\ pc = "matched" /\ type_hints
       /\ ~budget_exhausted(counter) /\ ~already_annotated(node)
       /\ live_parms(node, make_annotation(node, TRUE))
              # Len(make_annotation(node, TRUE).argtypes)
       => /\ pc' = "done"
          /\ node' = node
          /\ counter' = counter
          /\ tree_imports' = tree_imports
          /\ is_in(ParameterCount, logged')]_vars

\* C4: for a function not named __init__ the return type is None exactly when
\* its own body (nested defs and classes apart) holds no 'return <expr>', and
\* Any otherwise; the written return type is that type.
C4_ReturnType ==
    pc = "done" /\ outcome \in Annotated /\ orig.name.value # InitName
        => /\ annot.restype = IF OwnReturnValue(orig) THEN <<"Any">> ELSE <<"None">>
           /\ WrittenReturn(node) \in {<<>>, annot.restype}
           /\ WrittenReturn(node) = <<>> => type_hints /\ startswith(orig.name.value, "__")

\* a value is returned only inside a nested def or class, and None is written
C4_Witness ==
    /\ pc = "done" /\ outcome \in Annotated /\ orig.name.value = <<"foo">>
    /\ NestedReturnValue(orig) /\ ~OwnReturnValue(orig)
    /\ WrittenReturn(node) = <<"None">>

SelfArg(place) ==
    FuncDef(<<"foo">>, place, <<Plain("self"), Plain("arg")>>, Colon, PlainSuite)

C7_InitNoneWritten ==
    pc = "done" /\ outcome \in Annotated /\ orig.name.value = InitName /\ Edited
        => WrittenReturn(node) = <<"None">>

\* C7 amended: the return type computed for an annotated __init__ is None
\* whatever its body returns; comment style writes '-> None' in the comment
\* before the body, inline style writes no return type for it at all.
C7_InitNone ==
    pc = "done" /\ outcome \in Annotated /\ orig.name.value = InitName
        => /\ annot.restype = <<"None">>
           /\ ~type_hints => WrittenReturn(node) = <<"None">>
           /\ type_hints => WrittenReturn(node) = <<>> /\ node.tail = orig.tail

\* an __init__ that returns a value got '-> None' in its comment
C7_Witness ==
    /\ pc = "done" /\ outcome = "compact" /\ orig.name.value = InitName
    /\ OwnReturnValue(orig) /\ WrittenReturn(node) = <<"None">>

\* C8: the import of Any has been added exactly when it was missing and some
\* annotation written into the file contains Any.
C8_ImportIffAnyWritten ==
    pc \in {"scan", "done"}
        => /\ tree_imports = "added" => wrote_any
           /\ tree_imports = "none" => ~wrote_any

TypesLen(types) == StrLen(join("", types)) + 2 * (IF types = <<>> THEN 0 ELSE Len(types) - 1)

\* the length of '(T1, ..., Tn) -> TR' and of '(...) -> TR'
CompactLen(an) == 1 + TypesLen(an.argtypes) + 5 + StrLen(an.restype)

CollapsedLen(an) == 9 + StrLen(an.restype)

\* the comment inserted before the body is '# type: ' and str
BodyMarkerIs(str) ==
    node.suite.children[2].prefix =
        orig.suite.children[2].value \o <<"# type:", " ">> \o str \o <<"\n">>
        \o orig.suite.children[2].prefix

\* C9: in comment style the long form is used exactly when the compact
\* rendering is longer than 64 characters or has more than 5 entries, and the
\* collapsed rendering is shorter than it; otherwise one compact comment is
\* inserted before the body and the parameter list is not touched.
C9_WidthPolicy ==
    pc \in {"done", "crashed"} /\ outcome \in {"compact", "long", "long_crash"}
        => LET wide == /\ CompactLen(annot) > 64 \/ Len(annot.argtypes) > 5
                       /\ CollapsedLen(annot) < CompactLen(annot)
               touched == node.args # orig.args \/ node.rpar # orig.rpar
           IN  /\ touched <=> wide
               /\ ~wide => BodyMarkerIs(short_str(annot)) /\ pc = "done"
               /\ wide /\ pc = "done" => BodyMarkerIs(degen_str(annot))

\* six entries: one more than fits the compact form
C9_Witness ==
    /\ pc = "done" /\ outcome = "long" /\ Len(annot.argtypes) = 6
    /\ BodyMarkerIs(<<"(...) -> ", "Any">>)

\* the type a default value stands for, by Python's literals
IsNumber(d) == d.leaf /\ d.type = "NUMBER"

IsIntegerLiteral(d) ==
    IsNumber(d) /\ ~is_in(".", d.value) /\ ~is_in("j", d.value)

IsFloatLiteral(d) ==
    IsNumber(d) /\ is_in(".", d.value) /\ ~is_in("j", d.value)

LiteralType(d) ==
    IF IsIntegerLiteral(d) THEN <<"int">>
    ELSE IF IsFloatLiteral(d) THEN <<"float">>
    ELSE IF d.leaf /\ d.type = "STRING"
    THEN (IF d.value[1] \in {"u", "U"} THEN <<"unicode">> ELSE <<"str">>)
    ELSE IF d.leaf /\ d.type = "NAME" /\ d.value \in {<<"True">>, <<"False">>} THEN <<"bool">>
    ELSE <<"Any">>

\* every parameter is a bare name, with or without stars and a default
Unannotated(n) ==
    /\ n.args # NoNode /\ n.args.type # "tname"
    /\ \A i \in DOMAIN args_children(n) : args_children(n)[i].type # "tname"

IsParamName(kids, i) ==
    /\ kids[i].leaf /\ kids[i].type = "NAME"
    /\ i > 1 => kids[i - 1].type # "EQUAL"

ExpectedType(kids, i) ==
    IF i + 2 <= Len(kids) /\ kids[i + 1].type = "EQUAL"
    THEN LiteralType(kids[i + 2]) ELSE <<"Any">>

\* C10: each parameter gets the type of its default's literal (int, float,
\* unicode, str, bool), Any without a default or with any other default, and
\* the default itself is left as written.
C10_LiteralDefaults ==
    pc = "done" /\ outcome = "inline" /\ ~DirectlyInClass(orig) /\ Unannotated(orig)
        => \A i \in DOMAIN args_children(orig) :
              LET was == args_children(orig)
                  now == args_children(node)
              IN  IF IsParamName(was, i)
                  THEN now[i].value = was[i].value \o <<":", " ">> \o ExpectedType(was, i)
                  ELSE now[i] = was[i]

\* C11: revert_annotations gives, for every signature record, a sample record
\* with the same path, line, func_name and samples and exactly one type comment
\* that reads as the record's argument types in their order, with their stars,
\* and its return type; generating from these sample records gives the
\* signature records back.
C11_RoundTrip ==
    mpc = "regenerated"
        => /\ Len(reverted) = Len(data)
           /\ \A i \in DOMAIN data :
                 LET d == data[i]
                     r == reverted[i]
                     c == parse_type_comment(r.type_comments[1])
                 IN  /\ r.path = d.path /\ r.line = d.line
                     /\ r.func_name = d.func_name /\ r.samples = d.samples
                     /\ Len(r.type_comments) = 1
                     /\ Head(r.type_comments[1]) = "("
                     /\ c.ok
                     /\ [j \in DOMAIN c.args |-> arg_str(c.args[j])] = d.signature.arg_types
                     /\ render(c.ret) = d.signature.return_type
           /\ again = data

\* two records, the first with a starred second argument and a union that the
\* first generation put in canonical order, came back unchanged
C11_Witness ==
    /\ mpc = "regenerated" /\ Len(data) = 2 /\ again = data
    /\ Len(data[1].signature.arg_types) = 2
    /\ Head(data[1].signature.arg_types[1]) = "Union"
    /\ Head(data[1].signature.arg_types[2]) \in {"*", "**"}
    /\ reverted[1].type_comments # source[1].type_comments

\* C12: every matched function the pass leaves unannotated, for an existing
\* marker, an exhausted budget, an arity mismatch or a one-line body, has a
\* diagnostic that names the file, the line and the function.
C12_NoSilentSkip ==
    pc = "done" /\ outcome \in {"marked", "budget", "mismatch", "oneline"}
        => /\ logged # <<>>
           /\ \A i \in DOMAIN logged : logged[i].file /\ logged[i].line /\ logged[i].func

\* C13: the edit counter goes down by one exactly for the functions whose text
\* the pass changed: after every function of a run with a budget, the budget
\* minus the counter is the number of functions whose text changed so far.
C13_CounterTracksEdits ==
    maxfixes # None /\ pc \in {"scan", "done"} => maxfixes[1] - counter[1] = nedited

RECURSIVE count_atom(_, _)
count_atom(s, a) ==
    IF s = <<>> THEN 0 ELSE (IF Head(s) = a THEN 1 ELSE 0) + count_atom(Tail(s), a)

\* text was added to the parameter list / before the body / after the ')'
ParamsTouched == node.args # orig.args \/ node.rpar # orig.rpar

BodyMarked == node.suite.children[2].prefix # orig.suite.children[2].prefix

ReturnWritten == node.tail # orig.tail

\* the number of ': T' suffixes / trailing '# type:' comments put on parameters
SuffixesAdded ==
    count_atom(text_of_seq(parm_list_children(node)), ":")
    - count_atom(text_of_seq(parm_list_children(orig)), ":")

MarkersAdded ==
    count_atom(text_of_seq(parm_list_children(node)), "# type:")
    - count_atom(text_of_seq(parm_list_children(orig)), "# type:")

\* C14: after a function is processed, either all of its annotation text is
\* there (a suffix or marker for every live parameter, and the return suffix
\* or the body marker) or its text is as before; no failure part-way leaves
\* some tokens edited, and the run goes on to the next function.
C14_AllOrNothing ==
    pc \in {"done", "crashed"}
        => /\ pc # "crashed"
           /\ Edited /\ type_hints
                => /\ SuffixesAdded = live_parms(orig, annot)
                   /\ ReturnWritten \/ startswith(orig.name.value, "__")
           /\ Edited /\ ~type_hints
                => /\ BodyMarked
                   /\ ParamsTouched => MarkersAdded >= Len(annot.argtypes)

\* the type in the trailing '# type:' comment of the j-th parameter of a list
\* of bare names (the comment sits in the prefix of the leaf after the comma,
\* or of the ')'), or None
MarkerAfter(j) ==
    LET kids == args_children(node)
        nxt == IF 2 * j + 1 <= Len(kids) THEN kids[2 * j + 1] ELSE node.rpar
        I == {i \in DOMAIN nxt.prefix : nxt.prefix[i] = "# type:"}
    IN  IF I = {} THEN None ELSE <<nxt.prefix[(CHOOSE i \in I : TRUE) + 2]>>

\* the type make_annotation computed for the j-th parameter, None for a
\* skipped first parameter
ComputedType(j) ==
    IF annot.skipped_first
    THEN (IF j = 1 THEN None ELSE lstrip_stars(annot.argtypes[j - 1]))
    ELSE lstrip_stars(annot.argtypes[j])

\* C15: when the long form is used the body marker is '(...) -> TR', every
\* parameter has the trailing '# type:' comment with the type computed for
\* it, the first parameter has none exactly when make_annotation skipped it,
\* and the assertion on left-over types never fails.
C15_LongFormAligned ==
    pc \in {"done", "crashed"} /\ outcome \in {"long", "long_crash"} /\ PlainParams(orig)
        => /\ pc = "done"
           /\ BodyMarkerIs(degen_str(annot))
           /\ MarkersAdded = Len(annot.argtypes)
           /\ \A j \in 1..NParams(orig) : MarkerAfter(j) = ComputedType(j)


====
